---- MODULE Spec2Model ----
(***************************************************************************)
(* Model of node.Node (src/node/node.go): the container that owns one     *)
(* p2p.Server and a registry of service constructors.  Callers invoke     *)
(* Register, Unregister, Start, Stop and Restart concurrently; every      *)
(* statement group of a method is one step of the calling goroutine, so   *)
(* that what n.lock protects is decided by the lock and not by the        *)
(* granularity of the model.                                              *)
(***************************************************************************)
EXTENDS Integers, Sequences, FiniteSets, TLC

\* ------------------------------------------------------------------ bounds
\* No Start or Restart is invoked once this many p2p.Servers have been
\* allocated (line 111); calls already in progress may still allocate theirs.
MaxServers == 3

Callers == {"c1", "c2"}
IDs == {"a", "b"}
Factories == {"f1", "f2"}

\* ------------------------------------------------------------------ values
Nil == 0
NoOwner == "none"
EmptyMap == [x \in {} |-> 0]
NilServices == [set |-> FALSE, m |-> EmptyMap]

Put(m, k, v) == [x \in DOMAIN m \cup {k} |-> IF x = k THEN v ELSE m[x]]
Delete(m, k) == [x \in DOMAIN m \ {k} |-> m[x]]
Restrict(m, S) == [x \in DOMAIN m \cap S |-> m[x]]
Range(m) == {m[x] : x \in DOMAIN m}

\* The identity of the Service that the constructor of id returns to the
\* Start that allocated p2p.Server h: every call of a constructor returns a
\* Service of its own, and a Start calls the constructor of an id once.
Service(h, id) == [alloc |-> h, id |-> id]

\* what a constructor returns: a Service no method of which has been called
NewService(id, fac) == [id |-> id, fac |-> fac, starts |-> 0, stops |-> 0]

Ok == [kind |-> "nil"]
ErrNodeStopped == [kind |-> "ErrNodeStopped"]
ErrNodeRunning == [kind |-> "ErrNodeRunning"]
ErrServiceUnknown == [kind |-> "ErrServiceUnknown"]
ErrServiceRegistered == [kind |-> "ErrServiceRegistered"]
\* errors produced by the foreign calls
FactoryErr(id) == [kind |-> "FactoryErr", id |-> id]
ServerStartErr(h) == [kind |-> "ServerStartErr", server |-> h]
ServiceStartErr(i) == [kind |-> "ServiceStartErr", inst |-> i]
ServiceStopErr(i) == [kind |-> "ServiceStopErr", inst |-> i]
StopError(f) == [kind |-> "StopError", Services |-> f]

NoOp == [name |-> "-", id |-> "-", fac |-> "-"]
RegisterOp(id, fac) == [name |-> "Register", id |-> id, fac |-> fac]
UnregisterOp(id) == [name |-> "Unregister", id |-> id, fac |-> "-"]
PlainOp(name) == [name |-> name, id |-> "-", fac |-> "-"]
Ops ==
  {RegisterOp(id, fac) : id \in IDs, fac \in Factories}
    \cup {UnregisterOp(id) : id \in IDs}
    \cup {PlainOp(n) : n \in {"Start", "Stop", "Restart"}}

\* ------------------------------------------------------------------- state
VARIABLES
  stack,        \* n.stack: id -> constructor
  running,      \* n.running: Nil or the identity of a p2p.Server
  services,     \* n.services: nil or id -> Service identity
  lock,         \* n.lock: NoOwner or the caller holding it
  pc,           \* position of each caller
  op,           \* the public method each caller is in, with its arguments
  fn,           \* the method whose body the caller executes (Restart: Stop, then Start)
  err,          \* the value the executing method returns
  lrunning,     \* Start's local `running`
  lservices,    \* Start's local `services`; in Stop, the map its range loop iterates
  todo,         \* keys a range loop has still to visit
  started,      \* Start's local `started`
  rb,           \* what is left of `range started` in the rollback loop
  failure,      \* Stop's failure.Services
  nextServer,   \* identity of the next p2p.Server allocated
  srv,          \* per reachable p2p.Server: "new", "started", "failed", "stopped"
  svc,          \* per reachable Service: the id and constructor that produced it
                \* and the number of Start and of Stop calls it has received
  entry,        \* per caller: the state when it acquired n.lock
  pre,          \* per caller in Restart: the state when its Stop acquired n.lock
  log,          \* per caller: foreign calls made by the executing method, in order
  registered    \* net effect of the Register/Unregister calls that returned nil

nodeVars == <<stack, running, services, lock>>
callerVars == <<pc, op, fn, err>>
localVars == <<lrunning, lservices, todo, started, rb, failure>>
envVars == <<nextServer, srv, svc>>
histVars == <<entry, pre, log, registered>>
vars == <<nodeVars, callerVars, localVars, envVars, histVars>>

NoEntry == [held |-> FALSE]
Snapshot ==
  [held |-> TRUE, stack |-> stack, running |-> running, services |-> services,
   srv |-> srv, svc |-> svc, nextServer |-> nextServer]

Call(what, id, inst, ok) == [what |-> what, id |-> id, inst |-> inst, ok |-> ok]

\* -------------------------------------------------------------------- Init
Init ==
  /\ stack = EmptyMap
  /\ running = Nil
  /\ services = NilServices
  /\ lock = NoOwner
  /\ pc = [p \in Callers |-> "idle"]
  /\ op = [p \in Callers |-> NoOp]
  /\ fn = [p \in Callers |-> "-"]
  /\ err = [p \in Callers |-> Ok]
  /\ lrunning = [p \in Callers |-> Nil]
  /\ lservices = [p \in Callers |-> EmptyMap]
  /\ todo = [p \in Callers |-> {}]
  /\ started = [p \in Callers |-> <<>>]
  /\ rb = [p \in Callers |-> <<>>]
  /\ failure = [p \in Callers |-> EmptyMap]
  /\ nextServer = 1
  /\ srv = EmptyMap
  /\ svc = EmptyMap
  /\ entry = [p \in Callers |-> NoEntry]
  /\ pre = [p \in Callers |-> NoEntry]
  /\ log = [p \in Callers |-> <<>>]
  /\ registered = EmptyMap

\* ----------------------------------------------------------------- callers
\* A caller invokes the public method o.
CallOp(p, o) ==
  /\ pc[p] = "idle"
  /\ o.name \in {"Start", "Restart"} => nextServer <= MaxServers
  /\ op' = [op EXCEPT ![p] = o]
  /\ fn' = [fn EXCEPT ![p] = IF o.name = "Restart" THEN "Stop" ELSE o.name]
  /\ pc' = [pc EXCEPT ![p] = "lock"]
  /\ UNCHANGED <<nodeVars, err, localVars, envVars, entry, pre, log, registered>>

Invoke(p) == \E o \in Ops : CallOp(p, o)

FirstPc(f) ==
  CASE f = "Register" -> "reg_check"
    [] f = "Unregister" -> "unreg_check"
    [] f = "Start" -> "start_check"
    [] f = "Stop" -> "stop_check"

\* Lock as a mutex that excludes nobody.
Lock_NoExclusion(p) ==
  /\ pc[p] = "lock"
  /\ lock' = p
  /\ pc' = [pc EXCEPT ![p] = FirstPc(fn[p])]
  /\ entry' = [entry EXCEPT ![p] = Snapshot]
  /\ pre' = [pre EXCEPT ![p] =
               IF op[p].name = "Restart" /\ fn[p] = "Stop" THEN Snapshot ELSE @]
  /\ log' = [log EXCEPT ![p] = <<>>]
  /\ UNCHANGED <<stack, running, services, op, fn, err, localVars, envVars,
                 registered>>

\* n.lock.Lock()
Lock(p) ==
  /\ pc[p] = "lock"
  /\ lock = NoOwner
  /\ lock' = p
  /\ pc' = [pc EXCEPT ![p] = FirstPc(fn[p])]
  /\ entry' = [entry EXCEPT ![p] = Snapshot]
  /\ pre' = [pre EXCEPT ![p] =
               IF op[p].name = "Restart" /\ fn[p] = "Stop" THEN Snapshot ELSE @]
  /\ log' = [log EXCEPT ![p] = <<>>]
  /\ UNCHANGED <<stack, running, services, op, fn, err, localVars, envVars,
                 registered>>

Return(p, e) ==
  /\ err' = [err EXCEPT ![p] = e]
  /\ pc' = [pc EXCEPT ![p] = "unlock"]

\* Register testing the id before testing n.running.
RegisterCheck_DuplicateFirst(p) ==
  /\ pc[p] = "reg_check"
  /\ IF op[p].id \in DOMAIN stack
       THEN Return(p, ErrServiceRegistered)
       ELSE IF running # Nil
              THEN Return(p, ErrNodeRunning)
              ELSE /\ pc' = [pc EXCEPT ![p] = "reg_insert"]
                   /\ UNCHANGED err
  /\ UNCHANGED <<nodeVars, op, fn, localVars, envVars, histVars>>

\* Register without the test of lines 74-76: a taken id is overwritten.
RegisterCheck_Overwrites(p) ==
  /\ pc[p] = "reg_check"
  /\ IF running # Nil
       THEN Return(p, ErrNodeRunning)
       ELSE /\ pc' = [pc EXCEPT ![p] = "reg_insert"]
            /\ UNCHANGED err
  /\ UNCHANGED <<nodeVars, op, fn, localVars, envVars, histVars>>

\* Register, lines 71-76
RegisterCheck(p) ==
  /\ pc[p] = "reg_check"
  /\ IF running # Nil
       THEN Return(p, ErrNodeRunning)
       ELSE IF op[p].id \in DOMAIN stack
              THEN Return(p, ErrServiceRegistered)
              ELSE /\ pc' = [pc EXCEPT ![p] = "reg_insert"]
                   /\ UNCHANGED err
  /\ UNCHANGED <<nodeVars, op, fn, localVars, envVars, histVars>>

\* Register, lines 78-80
RegisterInsert(p) ==
  /\ pc[p] = "reg_insert"
  /\ stack' = Put(stack, op[p].id, op[p].fac)
  /\ Return(p, Ok)
  /\ UNCHANGED <<running, services, lock, op, fn, localVars, envVars, histVars>>

\* Unregister without the test of n.running in lines 90-92.
UnregisterCheck_IgnoresRunning(p) ==
  /\ pc[p] = "unreg_check"
  /\ IF op[p].id \notin DOMAIN stack
       THEN Return(p, ErrServiceUnknown)
       ELSE /\ pc' = [pc EXCEPT ![p] = "unreg_delete"]
            /\ UNCHANGED err
  /\ UNCHANGED <<nodeVars, op, fn, localVars, envVars, histVars>>

\* Unregister, lines 90-95
UnregisterCheck(p) ==
  /\ pc[p] = "unreg_check"
  /\ IF running # Nil
       THEN Return(p, ErrNodeRunning)
       ELSE IF op[p].id \notin DOMAIN stack
              THEN Return(p, ErrServiceUnknown)
              ELSE /\ pc' = [pc EXCEPT ![p] = "unreg_delete"]
                   /\ UNCHANGED err
  /\ UNCHANGED <<nodeVars, op, fn, localVars, envVars, histVars>>

\* Unregister, lines 97-98
UnregisterDelete(p) ==
  /\ pc[p] = "unreg_delete"
  /\ stack' = Delete(stack, op[p].id)
  /\ Return(p, Ok)
  /\ UNCHANGED <<running, services, lock, op, fn, localVars, envVars, histVars>>

\* Start bringing the p2p.Server up before the constructors run.
StartCheck_ServerFirst(p) ==
  /\ pc[p] = "start_check"
  /\ IF running # Nil
       THEN /\ Return(p, ErrNodeRunning)
            /\ UNCHANGED <<lrunning, lservices, todo, nextServer, srv>>
       ELSE /\ lrunning' = [lrunning EXCEPT ![p] = nextServer]
            /\ nextServer' = nextServer + 1
            /\ srv' = Put(srv, nextServer, "started")
            /\ lservices' = [lservices EXCEPT ![p] = EmptyMap]
            /\ todo' = [todo EXCEPT ![p] = DOMAIN stack]
            /\ pc' = [pc EXCEPT ![p] =
                        IF DOMAIN stack = {} THEN "start_p2p" ELSE "start_construct"]
            /\ UNCHANGED err
  /\ UNCHANGED <<nodeVars, op, fn, started, rb, failure, svc,
                 histVars>>

\* Start without the test of n.running in lines 107-109.
StartCheck_IgnoresRunning(p) ==
  /\ pc[p] = "start_check"
  /\ lrunning' = [lrunning EXCEPT ![p] = nextServer]
  /\ nextServer' = nextServer + 1
  /\ srv' = Put(srv, nextServer, "new")
  /\ lservices' = [lservices EXCEPT ![p] = EmptyMap]
  /\ todo' = [todo EXCEPT ![p] = DOMAIN stack]
  /\ pc' = [pc EXCEPT ![p] =
              IF DOMAIN stack = {} THEN "start_p2p" ELSE "start_construct"]
  /\ UNCHANGED <<nodeVars, op, fn, err, started, rb, failure, svc, histVars>>

\* Start, lines 107-114: the running check, the fresh p2p.Server, the empty map
StartCheck(p) ==
  /\ pc[p] = "start_check"
  /\ IF running # Nil
       THEN /\ Return(p, ErrNodeRunning)
            /\ UNCHANGED <<lrunning, lservices, todo, nextServer, srv>>
       ELSE /\ lrunning' = [lrunning EXCEPT ![p] = nextServer]
            /\ nextServer' = nextServer + 1
            /\ srv' = Put(srv, nextServer, "new")
            /\ lservices' = [lservices EXCEPT ![p] = EmptyMap]
            /\ todo' = [todo EXCEPT ![p] = DOMAIN stack]
            /\ pc' = [pc EXCEPT ![p] =
                        IF DOMAIN stack = {} THEN "start_p2p" ELSE "start_construct"]
            /\ UNCHANGED err
  /\ UNCHANGED <<nodeVars, op, fn, started, rb, failure, svc,
                 histVars>>

\* Start skipping an id whose constructor failed and constructing the rest.
StartConstruct_NoAbort(p) ==
  /\ pc[p] = "start_construct"
  /\ \E id \in todo[p] : \E ok \in BOOLEAN :
       /\ log' = [log EXCEPT ![p] = Append(@, Call("factory", id, Service(lrunning[p], id), ok))]
       /\ lservices' = [lservices EXCEPT ![p] =
                          IF ok THEN Put(@, id, Service(lrunning[p], id)) ELSE @]
       /\ svc' = IF ok THEN Put(svc, Service(lrunning[p], id), NewService(id, stack[id]))
                       ELSE svc
       /\ todo' = [todo EXCEPT ![p] = @ \ {id}]
       /\ pc' = [pc EXCEPT ![p] =
                   IF todo[p] = {id} THEN "start_p2p" ELSE "start_construct"]
  /\ UNCHANGED <<nodeVars, op, fn, err, lrunning, started, rb, failure, nextServer,
                 srv, entry, pre, registered>>

\* Start dropping from n.stack the id whose constructor failed.
StartConstruct_DropsFailed(p) ==
  /\ pc[p] = "start_construct"
  /\ \E id \in todo[p] : \E ok \in BOOLEAN :
       /\ log' = [log EXCEPT ![p] = Append(@, Call("factory", id, Service(lrunning[p], id), ok))]
       /\ IF ok
            THEN /\ lservices' = [lservices EXCEPT ![p] = Put(@, id, Service(lrunning[p], id))]
                 /\ svc' = Put(svc, Service(lrunning[p], id), NewService(id, stack[id]))
                 /\ todo' = [todo EXCEPT ![p] = @ \ {id}]
                 /\ pc' = [pc EXCEPT ![p] =
                             IF todo[p] = {id} THEN "start_p2p" ELSE "start_construct"]
                 /\ UNCHANGED <<err, stack>>
            ELSE /\ Return(p, FactoryErr(id))
                 /\ stack' = Delete(stack, id)
                 /\ UNCHANGED <<lservices, svc, todo>>
  /\ UNCHANGED <<running, services, lock, op, fn, lrunning, started, rb, failure,
                 nextServer, srv, entry, pre, registered>>

\* Start, lines 115-121: one iteration of `range n.stack`
StartConstruct(p) ==
  /\ pc[p] = "start_construct"
  /\ \E id \in todo[p] : \E ok \in BOOLEAN :
       /\ log' = [log EXCEPT ![p] = Append(@, Call("factory", id, Service(lrunning[p], id), ok))]
       /\ IF ok
            THEN /\ lservices' = [lservices EXCEPT ![p] = Put(@, id, Service(lrunning[p], id))]
                 /\ svc' = Put(svc, Service(lrunning[p], id), NewService(id, stack[id]))
                 /\ todo' = [todo EXCEPT ![p] = @ \ {id}]
                 /\ pc' = [pc EXCEPT ![p] =
                             IF todo[p] = {id} THEN "start_p2p" ELSE "start_construct"]
                 /\ UNCHANGED err
            ELSE /\ Return(p, FactoryErr(id))
                 /\ UNCHANGED <<lservices, svc, todo>>
  /\ UNCHANGED <<nodeVars, op, fn, lrunning, started, rb, failure, nextServer,
                 srv, entry, pre, registered>>

\* Start assigning n.services before running.Start() has succeeded.
StartP2P_PublishesEarly(p) ==
  /\ pc[p] = "start_p2p"
  /\ \E ok \in BOOLEAN :
       /\ log' = [log EXCEPT ![p] = Append(@, Call("p2pStart", "-", lrunning[p], ok))]
       /\ srv' = [srv EXCEPT ![lrunning[p]] = IF ok THEN "started" ELSE "failed"]
       /\ services' = [set |-> TRUE, m |-> lservices[p]]
       /\ IF ok
            THEN /\ started' = [started EXCEPT ![p] = <<>>]
                 /\ todo' = [todo EXCEPT ![p] = DOMAIN lservices[p]]
                 /\ pc' = [pc EXCEPT ![p] =
                             IF DOMAIN lservices[p] = {}
                               THEN "start_publish_services" ELSE "start_services"]
                 /\ UNCHANGED err
            ELSE /\ Return(p, ServerStartErr(lrunning[p]))
                 /\ UNCHANGED <<started, todo>>
  /\ UNCHANGED <<stack, running, lock, op, fn, lrunning, lservices, rb, failure,
                 nextServer, svc, entry, pre, registered>>

\* Start, lines 123-127: running.Start()
StartP2P(p) ==
  /\ pc[p] = "start_p2p"
  /\ \E ok \in BOOLEAN :
       /\ log' = [log EXCEPT ![p] = Append(@, Call("p2pStart", "-", lrunning[p], ok))]
       /\ srv' = [srv EXCEPT ![lrunning[p]] = IF ok THEN "started" ELSE "failed"]
       /\ IF ok
            THEN /\ started' = [started EXCEPT ![p] = <<>>]
                 /\ todo' = [todo EXCEPT ![p] = DOMAIN lservices[p]]
                 /\ pc' = [pc EXCEPT ![p] =
                             IF DOMAIN lservices[p] = {}
                               THEN "start_publish_services" ELSE "start_services"]
                 /\ UNCHANGED err
            ELSE /\ Return(p, ServerStartErr(lrunning[p]))
                 /\ UNCHANGED <<started, todo>>
  /\ UNCHANGED <<nodeVars, op, fn, lrunning, lservices, rb, failure, nextServer,
                 svc, entry, pre, registered>>

\* Start, lines 128-138 without the rollback loop: one iteration of `range services`
StartService(p) ==
  /\ pc[p] = "start_services"
  /\ \E id \in todo[p] : \E ok \in BOOLEAN :
       LET i == lservices[p][id] IN
       /\ log' = [log EXCEPT ![p] = Append(@, Call("svcStart", id, i, ok))]
       /\ svc' = [svc EXCEPT ![i].starts = @ + 1]
       /\ IF ok
            THEN /\ started' = [started EXCEPT ![p] = Append(@, id)]
                 /\ todo' = [todo EXCEPT ![p] = @ \ {id}]
                 /\ pc' = [pc EXCEPT ![p] =
                             IF todo[p] = {id}
                               THEN "start_publish_services" ELSE "start_services"]
                 /\ UNCHANGED <<err, rb>>
            ELSE /\ rb' = [rb EXCEPT ![p] = started[p]]
                 /\ err' = [err EXCEPT ![p] = ServiceStartErr(i)]
                 /\ pc' = [pc EXCEPT ![p] =
                             IF started[p] = <<>> THEN "unlock" ELSE "start_rollback"]
                 /\ UNCHANGED <<started, todo>>
  /\ UNCHANGED <<nodeVars, op, fn, lrunning, lservices, failure, nextServer,
                 srv, entry, pre, registered>>

\* The rollback giving up, and returning the Stop error, at the first
\* service that fails to stop.
StartRollback_Surfaces(p) ==
  /\ pc[p] = "start_rollback"
  /\ \E ok \in BOOLEAN :
       LET id == Head(rb[p])
           i == lservices[p][id]
       IN /\ log' = [log EXCEPT ![p] = Append(@, Call("svcStop", id, i, ok))]
          /\ svc' = [svc EXCEPT ![i].stops = @ + 1]
          /\ rb' = [rb EXCEPT ![p] = Tail(@)]
          /\ err' = [err EXCEPT ![p] = IF ok THEN @ ELSE ServiceStopErr(i)]
          /\ pc' = [pc EXCEPT ![p] =
                      IF Tail(rb[p]) = <<>> \/ ~ok THEN "unlock" ELSE "start_rollback"]
  /\ UNCHANGED <<nodeVars, op, fn, lrunning, lservices, todo, started, failure,
                 nextServer, srv, entry, pre, registered>>

\* Start, lines 131-134: one iteration of `range started`, then return err
StartRollback(p) ==
  /\ pc[p] = "start_rollback"
  /\ \E ok \in BOOLEAN :
       LET id == Head(rb[p])
           i == lservices[p][id]
       IN /\ log' = [log EXCEPT ![p] = Append(@, Call("svcStop", id, i, ok))]
          /\ svc' = [svc EXCEPT ![i].stops = @ + 1]
          /\ rb' = [rb EXCEPT ![p] = Tail(@)]
          /\ pc' = [pc EXCEPT ![p] =
                      IF Tail(rb[p]) = <<>> THEN "unlock" ELSE "start_rollback"]
  /\ UNCHANGED <<nodeVars, op, fn, err, lrunning, lservices, todo, started, failure,
                 nextServer, srv, entry, pre, registered>>

\* Start, line 140
StartPublishServices(p) ==
  /\ pc[p] = "start_publish_services"
  /\ services' = [set |-> TRUE, m |-> lservices[p]]
  /\ pc' = [pc EXCEPT ![p] = "start_publish_running"]
  /\ UNCHANGED <<stack, running, lock, op, fn, err, localVars, envVars, histVars>>

\* Start, lines 141-143
StartPublishRunning(p) ==
  /\ pc[p] = "start_publish_running"
  /\ running' = lrunning[p]
  /\ Return(p, Ok)
  /\ UNCHANGED <<stack, services, lock, op, fn, localVars, envVars, histVars>>

\* Stop with n.running.Stop() placed before the loop over n.services.
StopCheck_ServerFirst(p) ==
  /\ pc[p] = "stop_check"
  /\ IF running = Nil
       THEN /\ Return(p, ErrNodeStopped)
            /\ UNCHANGED <<failure, todo, lservices, srv, log>>
       ELSE /\ failure' = [failure EXCEPT ![p] = EmptyMap]
            /\ lservices' = [lservices EXCEPT ![p] = services.m]
            /\ todo' = [todo EXCEPT ![p] = DOMAIN services.m]
            /\ log' = [log EXCEPT ![p] = Append(@, Call("p2pStop", "-", running, TRUE))]
            /\ srv' = [srv EXCEPT ![running] = "stopped"]
            /\ pc' = [pc EXCEPT ![p] =
                        IF DOMAIN services.m = {} THEN "stop_p2p" ELSE "stop_services"]
            /\ UNCHANGED err
  /\ UNCHANGED <<nodeVars, op, fn, lrunning, started, rb, nextServer, svc,
                 entry, pre, registered>>

\* Stop, lines 153-160: the running check, the empty StopError, and the map
\* that `range n.services` evaluates once and then iterates
StopCheck(p) ==
  /\ pc[p] = "stop_check"
  /\ IF running = Nil
       THEN /\ Return(p, ErrNodeStopped)
            /\ UNCHANGED <<failure, todo, lservices>>
       ELSE /\ failure' = [failure EXCEPT ![p] = EmptyMap]
            /\ lservices' = [lservices EXCEPT ![p] = services.m]
            /\ todo' = [todo EXCEPT ![p] = DOMAIN services.m]
            /\ pc' = [pc EXCEPT ![p] =
                        IF DOMAIN services.m = {} THEN "stop_p2p" ELSE "stop_services"]
            /\ UNCHANGED err
  /\ UNCHANGED <<nodeVars, op, fn, lrunning, started, rb, envVars, histVars>>

\* Stop calling a service's Stop again until it succeeds.
StopService_Retries(p) ==
  /\ pc[p] = "stop_services"
  /\ \E id \in todo[p] : \E ok \in BOOLEAN :
       LET i == lservices[p][id] IN
       /\ log' = [log EXCEPT ![p] = Append(@, Call("svcStop", id, i, ok))]
       /\ svc' = [svc EXCEPT ![i].stops = @ + 1]
       /\ todo' = [todo EXCEPT ![p] = IF ok THEN @ \ {id} ELSE @]
       /\ pc' = [pc EXCEPT ![p] =
                   IF ok /\ todo[p] = {id} THEN "stop_p2p" ELSE "stop_services"]
  /\ UNCHANGED <<nodeVars, op, fn, err, failure, lrunning, lservices, started, rb,
                 nextServer, srv, entry, pre, registered>>

\* Stop returning at the first service that fails to stop.
StopService_ShortCircuit(p) ==
  /\ pc[p] = "stop_services"
  /\ \E id \in todo[p] : \E ok \in BOOLEAN :
       LET i == lservices[p][id] IN
       /\ log' = [log EXCEPT ![p] = Append(@, Call("svcStop", id, i, ok))]
       /\ svc' = [svc EXCEPT ![i].stops = @ + 1]
       /\ IF ok
            THEN /\ todo' = [todo EXCEPT ![p] = @ \ {id}]
                 /\ pc' = [pc EXCEPT ![p] =
                             IF todo[p] = {id} THEN "stop_p2p" ELSE "stop_services"]
                 /\ UNCHANGED <<err, failure>>
            ELSE /\ failure' = [failure EXCEPT ![p] = Put(@, id, ServiceStopErr(i))]
                 /\ Return(p, StopError(Put(failure[p], id, ServiceStopErr(i))))
                 /\ UNCHANGED todo
  /\ UNCHANGED <<nodeVars, op, fn, lrunning, lservices, started, rb,
                 nextServer, srv, entry, pre, registered>>

\* Stop, lines 160-164: one iteration of `range n.services`
StopService(p) ==
  /\ pc[p] = "stop_services"
  /\ \E id \in todo[p] : \E ok \in BOOLEAN :
       LET i == lservices[p][id] IN
       /\ log' = [log EXCEPT ![p] = Append(@, Call("svcStop", id, i, ok))]
       /\ svc' = [svc EXCEPT ![i].stops = @ + 1]
       /\ failure' = [failure EXCEPT ![p] =
                        IF ok THEN @ ELSE Put(@, id, ServiceStopErr(i))]
       /\ todo' = [todo EXCEPT ![p] = @ \ {id}]
       /\ pc' = [pc EXCEPT ![p] =
                   IF todo[p] = {id} THEN "stop_p2p" ELSE "stop_services"]
  /\ UNCHANGED <<nodeVars, op, fn, err, lrunning, lservices, started, rb,
                 nextServer, srv, entry, pre, registered>>

\* Stop, line 165: n.running.Stop()
StopP2P(p) ==
  /\ pc[p] = "stop_p2p"
  /\ running # Nil
  /\ log' = [log EXCEPT ![p] = Append(@, Call("p2pStop", "-", running, TRUE))]
  /\ srv' = [srv EXCEPT ![running] = "stopped"]
  /\ pc' = [pc EXCEPT ![p] = "stop_clear_services"]
  /\ UNCHANGED <<nodeVars, op, fn, err, localVars, nextServer, svc,
                 entry, pre, registered>>

\* Stop without line 167.
StopClearServices_Forgotten(p) ==
  /\ pc[p] = "stop_clear_services"
  /\ pc' = [pc EXCEPT ![p] = "stop_clear_running"]
  /\ UNCHANGED <<nodeVars, op, fn, err, localVars, envVars, histVars>>

\* Stop, line 167
StopClearServices(p) ==
  /\ pc[p] = "stop_clear_services"
  /\ services' = NilServices
  /\ pc' = [pc EXCEPT ![p] = "stop_clear_running"]
  /\ UNCHANGED <<stack, running, lock, op, fn, err, localVars, envVars, histVars>>

\* Stop without line 168.
StopClearRunning_KeepsRunning(p) ==
  /\ pc[p] = "stop_clear_running"
  /\ Return(p, IF DOMAIN failure[p] # {} THEN StopError(failure[p]) ELSE Ok)
  /\ UNCHANGED <<nodeVars, op, fn, localVars, envVars, histVars>>

\* Stop, lines 168-173
StopClearRunning(p) ==
  /\ pc[p] = "stop_clear_running"
  /\ running' = Nil
  /\ Return(p, IF DOMAIN failure[p] # {} THEN StopError(failure[p]) ELSE Ok)
  /\ UNCHANGED <<stack, services, lock, op, fn, localVars, envVars, histVars>>

\* Restart keeping n.lock from its Stop to its Start.
Unlock_RestartKeepsLock(p) ==
  /\ pc[p] = "unlock"
  /\ lock' = IF op[p].name = "Restart" /\ fn[p] = "Stop" /\ err[p] = Ok
               THEN p ELSE NoOwner
  /\ registered' =
       IF err[p] = Ok /\ fn[p] = "Register" THEN Put(registered, op[p].id, op[p].fac)
       ELSE IF err[p] = Ok /\ fn[p] = "Unregister" THEN Delete(registered, op[p].id)
       ELSE registered
  /\ IF op[p].name = "Restart" /\ fn[p] = "Stop" /\ err[p] = Ok
       THEN /\ fn' = [fn EXCEPT ![p] = "Start"]
            /\ pc' = [pc EXCEPT ![p] = "lock"]
            /\ UNCHANGED <<op, pre>>
       ELSE /\ fn' = [fn EXCEPT ![p] = "-"]
            /\ pc' = [pc EXCEPT ![p] = "idle"]
            /\ op' = [op EXCEPT ![p] = NoOp]
            /\ pre' = [pre EXCEPT ![p] = NoEntry]
  /\ err' = [err EXCEPT ![p] = Ok]
  /\ entry' = [entry EXCEPT ![p] = NoEntry]
  /\ log' = [log EXCEPT ![p] = <<>>]
  /\ lrunning' = [lrunning EXCEPT ![p] = Nil]
  /\ lservices' = [lservices EXCEPT ![p] = EmptyMap]
  /\ todo' = [todo EXCEPT ![p] = {}]
  /\ started' = [started EXCEPT ![p] = <<>>]
  /\ rb' = [rb EXCEPT ![p] = <<>>]
  /\ failure' = [failure EXCEPT ![p] = EmptyMap]
  /\ srv' = Restrict(srv, {running} \cup {lrunning[q] : q \in Callers \ {p}})
  /\ svc' = Restrict(svc, Range(services.m)
                            \cup UNION {Range(lservices[q]) : q \in Callers \ {p}})
  /\ UNCHANGED <<stack, running, services, nextServer>>

\* The deferred n.lock.Unlock() and the return to the caller; in Restart
\* (lines 179-185) a Stop that returned nil is followed by the call of Start.
\* The method's locals die with its frame: a p2p.Server or Service that only
\* they referenced is unreachable from here on and leaves srv and svc.
Unlock(p) ==
  /\ pc[p] = "unlock"
  /\ lock' = NoOwner
  /\ registered' =
       IF err[p] = Ok /\ fn[p] = "Register" THEN Put(registered, op[p].id, op[p].fac)
       ELSE IF err[p] = Ok /\ fn[p] = "Unregister" THEN Delete(registered, op[p].id)
       ELSE registered
  /\ IF op[p].name = "Restart" /\ fn[p] = "Stop" /\ err[p] = Ok
       THEN /\ fn' = [fn EXCEPT ![p] = "Start"]
            /\ pc' = [pc EXCEPT ![p] = "lock"]
            /\ UNCHANGED <<op, pre>>
       ELSE /\ fn' = [fn EXCEPT ![p] = "-"]
            /\ pc' = [pc EXCEPT ![p] = "idle"]
            /\ op' = [op EXCEPT ![p] = NoOp]
            /\ pre' = [pre EXCEPT ![p] = NoEntry]
  /\ err' = [err EXCEPT ![p] = Ok]
  /\ entry' = [entry EXCEPT ![p] = NoEntry]
  /\ log' = [log EXCEPT ![p] = <<>>]
  /\ lrunning' = [lrunning EXCEPT ![p] = Nil]
  /\ lservices' = [lservices EXCEPT ![p] = EmptyMap]
  /\ todo' = [todo EXCEPT ![p] = {}]
  /\ started' = [started EXCEPT ![p] = <<>>]
  /\ rb' = [rb EXCEPT ![p] = <<>>]
  /\ failure' = [failure EXCEPT ![p] = EmptyMap]
  /\ srv' = Restrict(srv, {running} \cup {lrunning[q] : q \in Callers \ {p}})
  /\ svc' = Restrict(svc, Range(services.m)
                            \cup UNION {Range(lservices[q]) : q \in Callers \ {p}})
  /\ UNCHANGED <<stack, running, services, nextServer>>

Body(p) ==
  \/ RegisterCheck(p) \/ RegisterInsert(p)
  \/ UnregisterCheck(p) \/ UnregisterDelete(p)
  \/ StartCheck(p) \/ StartConstruct(p) \/ StartP2P(p) \/ StartService(p)
  \/ StartRollback(p) \/ StartPublishServices(p) \/ StartPublishRunning(p)
  \/ StopCheck(p) \/ StopService(p) \/ StopP2P(p) \/ StopClearServices(p)
  \/ StopClearRunning(p)

Step(p) == Invoke(p) \/ Lock(p) \/ Body(p) \/ Unlock(p)

Next == \E p \in Callers : Step(p)

Spec == Init /\ [][Next]_vars

\* Every call in the model returns, so a method that holds n.lock keeps
\* taking steps up to its deferred Unlock; a caller blocked in Lock gets the
\* mutex if it is released again and again (sync.Mutex hands the lock to a
\* waiter that has waited long enough).
OpsFair ==
  {RegisterOp(id, "f1") : id \in IDs}
    \cup {UnregisterOp(id) : id \in IDs}
    \cup {PlainOp(n) : n \in {"Start", "Stop", "Restart"}}
InvokeFair(p) == \E o \in OpsFair : CallOp(p, o)
NextFair == \E p \in Callers : InvokeFair(p) \/ Lock(p) \/ Body(p) \/ Unlock(p)
SpecFair ==
  /\ Init /\ [][NextFair]_vars
  /\ \A p \in Callers : WF_vars(Body(p) \/ Unlock(p)) /\ SF_vars(Lock(p))

\* One caller at a time: no call is invoked while another is in progress.
SeqCaller == CHOOSE p \in Callers : TRUE
NextSeq == Step(SeqCaller)
SpecSeq == Init /\ [][NextSeq]_vars

\* Callers that only register, concurrently, on the Node as constructed.
InvokeRegister(p) == \E id \in IDs : \E fac \in Factories : CallOp(p, RegisterOp(id, fac))
NextRegister ==
  \E p \in Callers :
    InvokeRegister(p) \/ Lock(p) \/ RegisterCheck(p) \/ RegisterInsert(p) \/ Unlock(p)
SpecRegister == Init /\ [][NextRegister]_vars

\* ------------------------------------------------------------------ claims
\* The method f run by p has computed its return value err[p]; what is left
\* is the deferred Unlock.
AtReturn(p, f) == pc[p] = "unlock" /\ fn[p] = f

Indices(p) == 1 .. Len(log[p])

\* C1: when Start returns the error of a service that failed to start, every
\* service started before it in this call has received exactly one Stop, the
\* p2p.Server started in this call is stopped, and the Node is Stopped.
C1_RollbackRestoresStopped ==
  \A p \in Callers :
    AtReturn(p, "Start") /\ err[p].kind = "ServiceStartErr" =>
      /\ \A k \in 1 .. Len(started[p]) : svc[lservices[p][started[p][k]]].stops = 1
      /\ srv[lrunning[p]] = "stopped"
      /\ running = Nil
      /\ services = NilServices

\* C2: whenever no method holds n.lock, n.running and n.services are both
\* nil or both set.
C2_LiveStateTogether ==
  lock = NoOwner => ((running = Nil) <=> ~services.set)

C2_Witness ==
  /\ lock = NoOwner
  /\ running # Nil
  /\ services.set
  /\ DOMAIN services.m = IDs

\* C3: from the moment Restart's Stop has acquired n.lock until Restart
\* returns, no step of another caller changes n.stack, n.running or
\* n.services.
C3_RestartExcludesOthers ==
  [][\A p \in Callers :
       pre[p].held /\ lock # p => UNCHANGED <<stack, running, services>>]_vars

\* C4: when Stop returns on a Node that was running, every live service has
\* received exactly one more Stop, the result is the StopError holding exactly
\* the ids whose Stop failed, each with its own error, or nil when none
\* failed, and n.running and n.services are nil.
C4_StopAggregates ==
  \A p \in Callers :
    AtReturn(p, "Stop") /\ entry[p].running # Nil =>
      LET live == entry[p].services.m
          failed == {id \in DOMAIN live :
                      \E k \in Indices(p) : log[p][k] = Call("svcStop", id, live[id], FALSE)}
      IN /\ \A id \in DOMAIN live :
              /\ svc[live[id]].stops = entry[p].svc[live[id]].stops + 1
              /\ Cardinality({k \in Indices(p) :
                                log[p][k].what = "svcStop" /\ log[p][k].inst = live[id]}) = 1
         /\ err[p] = IF failed = {}
                       THEN Ok
                       ELSE StopError([id \in failed |-> ServiceStopErr(live[id])])
         /\ running = Nil
         /\ services = NilServices

C4_Witness ==
  \E p \in Callers :
    /\ AtReturn(p, "Stop")
    /\ DOMAIN entry[p].services.m = IDs
    /\ err[p].kind = "StopError"
    /\ Cardinality(DOMAIN err[p].Services) = 1

\* C5: when Start returns a constructor's error, that failing constructor
\* call is the last foreign call of the Start and all before it are
\* constructor calls that succeeded, no constructed service has been started,
\* the p2p.Server was not started, and n.stack, n.running and n.services are
\* as they were when Start began, the Node being Stopped.
C5_FactoryFailureAborts ==
  \A p \in Callers :
    AtReturn(p, "Start") /\ err[p].kind = "FactoryErr" =>
      /\ Len(log[p]) >= 1
      /\ \A k \in Indices(p) :
           /\ log[p][k].what = "factory"
           /\ log[p][k].ok <=> k < Len(log[p])
      /\ log[p][Len(log[p])].id = err[p].id
      /\ \A i \in Range(lservices[p]) : svc[i].starts = 0 /\ svc[i].stops = 0
      /\ srv[lrunning[p]] = "new"
      /\ stack = entry[p].stack
      /\ running = Nil /\ entry[p].running = Nil
      /\ services = NilServices /\ entry[p].services = NilServices

C5_Witness ==
  \E p \in Callers :
    /\ AtReturn(p, "Start")
    /\ err[p].kind = "FactoryErr"
    /\ Len(log[p]) = 2

\* the Node and everything a method could have called are as they were when
\* p acquired n.lock
Untouched(p) ==
  /\ stack = entry[p].stack
  /\ running = entry[p].running
  /\ services = entry[p].services
  /\ srv = entry[p].srv
  /\ svc = entry[p].svc
  /\ nextServer = entry[p].nextServer
  /\ log[p] = <<>>

\* C6: Register, Unregister and Start that find the Node running return
\* ErrNodeRunning, and Stop that finds it stopped returns ErrNodeStopped;
\* such a call changes neither n.stack nor n.running nor n.services and
\* calls no constructor, no service and no p2p.Server method.
C6_RejectedWithoutEffect ==
  \A p \in Callers :
    pc[p] = "unlock" =>
      /\ entry[p].running # Nil /\ fn[p] \in {"Register", "Unregister", "Start"} =>
           err[p] = ErrNodeRunning /\ Untouched(p)
      /\ entry[p].running = Nil /\ fn[p] = "Stop" =>
           err[p] = ErrNodeStopped /\ Untouched(p)

C6_Witness ==
  \E p \in Callers :
    /\ AtReturn(p, "Register")
    /\ entry[p].running # Nil
    /\ op[p].id \in DOMAIN stack
    /\ err[p] = ErrNodeRunning

\* C7: whenever no method holds n.lock, n.stack is exactly what the Register
\* calls that returned nil put in, less what the Unregister calls that
\* returned nil took out; on a stopped Node, Register of a taken id returns
\* ErrServiceRegistered and Unregister of an absent id returns
\* ErrServiceUnknown, and both leave n.stack as it was.
C7_RegistryIsNetSet ==
  /\ lock = NoOwner => stack = registered
  /\ \A p \in Callers :
       /\ AtReturn(p, "Register") /\ entry[p].running = Nil
             /\ op[p].id \in DOMAIN entry[p].stack =>
           err[p] = ErrServiceRegistered /\ stack = entry[p].stack
       /\ AtReturn(p, "Unregister") /\ entry[p].running = Nil
             /\ op[p].id \notin DOMAIN entry[p].stack =>
           err[p] = ErrServiceUnknown /\ stack = entry[p].stack

C7_Witness ==
  \E p \in Callers :
    /\ AtReturn(p, "Register")
    /\ entry[p].running = Nil
    /\ op[p].id \in DOMAIN entry[p].stack
    /\ entry[p].stack[op[p].id] # op[p].fac
    /\ DOMAIN registered = IDs

\* C8: with callers registering concurrently, every constructor a Register
\* that returned nil put in is still in n.stack under its id, and a Register
\* returns nil if no earlier Register of its id returned nil and
\* ErrServiceRegistered otherwise.
C8_ConcurrentRegister ==
  /\ \A id \in DOMAIN registered : id \in DOMAIN stack /\ stack[id] = registered[id]
  /\ \A p \in Callers :
       AtReturn(p, "Register") =>
         IF op[p].id \in DOMAIN registered
           THEN err[p] = ErrServiceRegistered
           ELSE err[p] = Ok /\ stack[op[p].id] = op[p].fac

C8_Witness ==
  \E p \in Callers : \E q \in Callers \ {p} :
    /\ AtReturn(p, "Register")
    /\ err[p] = Ok
    /\ pc[q] = "lock"
    /\ op[q].name = "Register"
    /\ op[q].id = op[p].id
    /\ op[q].fac # op[p].fac

AllOk(p) == \A k \in Indices(p) : log[p][k].ok

\* C9: with one caller, a Restart that found the Node running returns
\* neither ErrNodeRunning nor ErrNodeStopped; it returns nil whenever every
\* foreign call it made succeeded; and when it returns nil, n.running is a
\* started p2p.Server allocated during the Restart and n.services holds, for
\* exactly the ids of n.stack, a Service its registered constructor returned
\* during the Restart, started once and never stopped.
C9_RestartFresh ==
  \A p \in Callers :
    pc[p] = "unlock" /\ op[p].name = "Restart" /\ pre[p].running # Nil =>
      /\ err[p].kind \notin {"ErrNodeRunning", "ErrNodeStopped"}
      /\ AllOk(p) => err[p] = Ok
      /\ fn[p] = "Start" /\ err[p] = Ok =>
           /\ running # Nil
           /\ running >= pre[p].nextServer
           /\ srv[running] = "started"
           /\ services.set
           /\ DOMAIN services.m = DOMAIN stack
           /\ \A id \in DOMAIN stack :
                LET i == services.m[id] IN
                /\ i.alloc >= pre[p].nextServer
                /\ i \notin Range(pre[p].services.m)
                /\ svc[i] = [id |-> id, fac |-> stack[id], starts |-> 1, stops |-> 0]
                /\ Cardinality({k \in Indices(p) :
                                  log[p][k] = Call("factory", id, i, TRUE)}) = 1

C9_Witness ==
  \E p \in Callers :
    /\ AtReturn(p, "Start")
    /\ op[p].name = "Restart"
    /\ err[p] = Ok
    /\ DOMAIN pre[p].services.m = IDs
    /\ DOMAIN services.m = IDs

\* C10: from the moment Start or Stop acquires n.lock until it returns,
\* n.stack is what it was when the method began.
C10_StartStopKeepRegistry ==
  \A p \in Callers :
    entry[p].held /\ fn[p] \in {"Start", "Stop"} => stack = entry[p].stack

C10_Witness ==
  \E p \in Callers :
    /\ AtReturn(p, "Stop")
    /\ op[p].name = "Stop"
    /\ err[p] = Ok
    /\ DOMAIN entry[p].services.m = IDs
    /\ DOMAIN stack = IDs

\* The Service i has been started successfully and no Stop has been called on
\* it: it is in n.services, or in the `started` list of a Start in progress.
Up(i) ==
  /\ svc[i].stops = 0
  /\ \/ i \in Range(services.m)
     \/ \E p \in Callers : \E k \in 1 .. Len(started[p]) :
          started[p][k] \in DOMAIN lservices[p] /\ lservices[p][started[p][k]] = i

\* C11: within a method, every service.Start comes after the successful
\* Start of the p2p.Server of that Start, and the Stop of the p2p.Server
\* comes after a Stop of every service that was live; no Service is up while
\* the p2p.Server allocated by its Start is not started.
C11_ServerFirstAndLast ==
  /\ \A p \in Callers : \A k \in Indices(p) :
       /\ log[p][k].what = "svcStart" =>
            \E j \in 1 .. (k - 1) : log[p][j] = Call("p2pStart", "-", lrunning[p], TRUE)
       /\ log[p][k].what = "p2pStop" =>
            \A id \in DOMAIN entry[p].services.m :
              \E j \in 1 .. (k - 1) :
                log[p][j].what = "svcStop" /\ log[p][j].inst = entry[p].services.m[id]
  /\ \A i \in DOMAIN svc :
       Up(i) => i.alloc \in DOMAIN srv /\ srv[i.alloc] = "started"

C11_Witness ==
  \E p \in Callers :
    /\ pc[p] = "stop_clear_services"
    /\ DOMAIN services.m = IDs
    /\ srv[running] = "stopped"

\* C12: when Restart returns an error, n.running and n.services are nil; and
\* when it is its Stop that failed, the Restart has called no constructor.
C12_FailedRestartLeavesStopped ==
  \A p \in Callers :
    pc[p] = "unlock" /\ op[p].name = "Restart" /\ err[p] # Ok =>
      /\ running = Nil
      /\ services = NilServices
      /\ fn[p] = "Stop" => \A k \in Indices(p) : log[p][k].what # "factory"

\* One caller, three ids: a Start can fail at its third service, after two
\* others have been started.
IDs3 == IDs \cup {"c"}
Ops3 ==
  {RegisterOp(id, fac) : id \in IDs3, fac \in Factories}
    \cup {UnregisterOp(id) : id \in IDs3}
    \cup {PlainOp(n) : n \in {"Start", "Stop", "Restart"}}
Invoke3(p) == \E o \in Ops3 : CallOp(p, o)
NextSeq3 ==
  Invoke3(SeqCaller) \/ Lock(SeqCaller) \/ Body(SeqCaller) \/ Unlock(SeqCaller)
SpecSeq3 == Init /\ [][NextSeq3]_vars

Reverse(s) == [k \in 1 .. Len(s) |-> s[Len(s) + 1 - k]]
IsServiceStop(c) == c.what = "svcStop"
\* the ids of the services the method has called Stop on, in call order
StopOrder(p) ==
  LET s == SelectSeq(log[p], IsServiceStop) IN [k \in 1 .. Len(s) |-> s[k].id]

\* C13: when Start returns the error of a service that failed to start, the
\* services it has stopped are those it had started, last started first.
C13_RollbackInReverse ==
  \A p \in Callers :
    AtReturn(p, "Start") /\ err[p].kind = "ServiceStartErr" =>
      StopOrder(p) = Reverse(started[p])

FailedStarts(p) ==
  {k \in Indices(p) : log[p][k].what = "svcStart" /\ ~log[p][k].ok}

\* C15: when Start returns after a service failed to start, what it returns
\* is the error of that service, whatever the Stop calls of the rollback
\* returned, and every service started before the failure has received
\* exactly one Stop, after the failure.
C15_RollbackSwallowsStopErrors ==
  \A p \in Callers :
    AtReturn(p, "Start") /\ FailedStarts(p) # {} =>
      /\ Cardinality(FailedStarts(p)) = 1
      /\ \A f \in FailedStarts(p) :
           /\ err[p] = ServiceStartErr(log[p][f].inst)
           /\ log[p][f].id \notin Range(started[p])
           /\ \A j \in 1 .. Len(started[p]) :
                LET i == lservices[p][started[p][j]] IN
                /\ svc[i].stops = 1
                /\ Cardinality({k \in Indices(p) :
                                  log[p][k].what = "svcStop" /\ log[p][k].inst = i}) = 1
                /\ \A k \in Indices(p) :
                     log[p][k].what = "svcStop" /\ log[p][k].inst = i => k > f

C15_Witness ==
  \E p \in Callers :
    /\ AtReturn(p, "Start")
    /\ err[p].kind = "ServiceStartErr"
    /\ \E j \in Indices(p) : \E k \in Indices(p) :
         /\ j < k
         /\ log[p][j].what = "svcStop" /\ ~log[p][j].ok
         /\ log[p][k].what = "svcStop"

\* C14: when Start returns the error of running.Start(), that call is the
\* last foreign call of the Start and all before it are constructor calls,
\* no constructed Service has received Start or Stop, and n.running and
\* n.services are nil as they were when Start began.
C14_ServerFailureAborts ==
  \A p \in Callers :
    AtReturn(p, "Start")
      /\ (\E k \in Indices(p) : log[p][k].what = "p2pStart" /\ ~log[p][k].ok) =>
      /\ err[p] = ServerStartErr(lrunning[p])
      /\ Len(log[p]) >= 1
      /\ log[p][Len(log[p])] = Call("p2pStart", "-", lrunning[p], FALSE)
      /\ \A k \in 1 .. (Len(log[p]) - 1) : log[p][k].what = "factory" /\ log[p][k].ok
      /\ \A i \in Range(lservices[p]) : svc[i].starts = 0 /\ svc[i].stops = 0
      /\ running = Nil /\ entry[p].running = Nil
      /\ services = NilServices /\ entry[p].services = NilServices

C14_Witness ==
  \E p \in Callers :
    /\ AtReturn(p, "Start")
    /\ err[p].kind = "ServerStartErr"
    /\ DOMAIN lservices[p] = IDs

\* p is in a loop that calls Start or Stop of services
CallingServices(p) == pc[p] \in {"start_services", "start_rollback", "stop_services"}

\* C16: at most one caller at a time is calling service methods; every
\* Service in n.services has received exactly one Start and at most one
\* Stop, and none while no method holds n.lock; and when Stop returns on a
\* Node that was running, each Service that was live has received exactly
\* one Start and exactly one Stop.
C16_OncePerCycle ==
  /\ Cardinality({p \in Callers : CallingServices(p)}) <= 1
  /\ \A i \in Range(services.m) :
       /\ svc[i].starts = 1
       /\ svc[i].stops <= 1
       /\ lock = NoOwner => svc[i].stops = 0
  /\ \A p \in Callers :
       AtReturn(p, "Stop") /\ entry[p].running # Nil =>
         \A i \in Range(entry[p].services.m) : svc[i].starts = 1 /\ svc[i].stops = 1

C16_Witness ==
  \E p \in Callers : \E q \in Callers \ {p} :
    /\ AtReturn(p, "Stop")
    /\ DOMAIN entry[p].services.m = IDs
    /\ pc[q] = "lock"
    /\ fn[q] = "Stop"
\* the positions of p's log that are constructor calls
FactoryCalls(p) == {k \in Indices(p) : log[p][k].what = "factory"}
\* C17: in one execution of Start, the constructor calls are for registered
\* ids and no id is called twice; a failed constructor call is the last call
\* of that execution, Start returns its error, and no Service exists for its
\* id; a Start that returns nil has called the constructor of every
\* registered id exactly once.
C17_FactoryOncePerAttempt ==
  \A p \in Callers :
    /\ \A j \in FactoryCalls(p) :
         /\ log[p][j].id \in DOMAIN entry[p].stack
         /\ \A k \in FactoryCalls(p) : log[p][j].id = log[p][k].id => j = k
         /\ ~log[p][j].ok =>
              /\ j = Len(log[p])
              /\ pc[p] = "unlock"
              /\ err[p] = FactoryErr(log[p][j].id)
              /\ log[p][j].id \notin DOMAIN lservices[p]
              /\ log[p][j].inst \notin DOMAIN svc
         /\ log[p][j].ok =>
              /\ log[p][j].id \in DOMAIN lservices[p]
              /\ lservices[p][log[p][j].id] = log[p][j].inst
    /\ AtReturn(p, "Start") /\ err[p] = Ok =>
         \A id \in DOMAIN stack :
           Cardinality({k \in FactoryCalls(p) : log[p][k].id = id}) = 1

C17_Witness ==
  \E p \in Callers :
    /\ AtReturn(p, "Start")
    /\ DOMAIN entry[p].stack = IDs
    /\ Cardinality(FactoryCalls(p)) = 2
    /\ ~log[p][2].ok
\* the positions of p's log that are calls of a p2p.Server method
ServerCalls(p, what) == {k \in Indices(p) : log[p][k].what = what}

\* What a Start or a Stop has done when it returns, by the state it found.
StartStopOutcome ==
  \A p \in Callers :
    /\ pc[p] \notin {"idle", "lock"} <=> lock = p
    /\ AtReturn(p, "Start") =>
         /\ entry[p].running # Nil =>
              err[p] = ErrNodeRunning /\ Untouched(p) /\ lrunning[p] = Nil
         /\ entry[p].running = Nil /\ AllOk(p) =>
              /\ err[p] = Ok
              /\ running = lrunning[p] /\ running # Nil /\ srv[running] = "started"
              /\ ServerCalls(p, "p2pStart") # {}
              /\ \A k \in ServerCalls(p, "p2pStart") :
                   log[p][k].inst = running /\ ServerCalls(p, "p2pStart") = {k}
              /\ \A id \in DOMAIN stack :
                   Cardinality({k \in FactoryCalls(p) : log[p][k].id = id}) = 1
         /\ err[p] = Ok => entry[p].running = Nil /\ running # Nil
    /\ AtReturn(p, "Stop") =>
         /\ entry[p].running = Nil => err[p] = ErrNodeStopped /\ Untouched(p)
         /\ entry[p].running # Nil =>
              /\ err[p].kind \in {"nil", "StopError"}
              /\ running = Nil /\ services = NilServices
              /\ ServerCalls(p, "p2pStop") # {}
              /\ \A k \in ServerCalls(p, "p2pStop") :
                   log[p][k].inst = entry[p].running /\ ServerCalls(p, "p2pStop") = {k}

\* C18: the body of at most one method executes at a time. A Start that
\* finds the Node running returns ErrNodeRunning, changes nothing and calls
\* nothing; a Start that finds it stopped and whose calls all succeed
\* returns nil with n.running its own started p2p.Server, having started
\* that one p2p.Server and called each registered constructor once. A Stop
\* that finds the Node stopped returns ErrNodeStopped, changes nothing and
\* calls nothing; a Stop that finds it running stops that p2p.Server once
\* and leaves the Node stopped. n.running becomes non-nil only in the last
\* assignment of a Start and nil only in the last assignment of a Stop, so
\* it keeps its value from the return of one call to the lock of the next.
C18_NoStartStopRace ==
  [][ /\ StartStopOutcome'
      /\ running' # running =>
           \E p \in Callers :
             /\ lock = p
             /\ \/ running = Nil /\ pc[p] = "start_publish_running"
                \/ running' = Nil /\ pc[p] = "stop_clear_running" ]_vars

C18_Witness ==
  \E p \in Callers : \E q \in Callers \ {p} :
    /\ op[p].name = "Start" /\ op[q].name = "Start"
    /\ AtReturn(p, "Start") /\ err[p] = Ok
    /\ pc[q] = "lock"
    /\ DOMAIN stack = IDs
\* a Stop holds n.lock
Stopping == \E p \in Callers : lock = p /\ fn[p] = "Stop"

\* While n.running is set and no Stop is in progress, n.services maps
\* exactly the ids of n.stack, each to a Service that the constructor
\* registered under that id returned.
LiveMatchesRegistry ==
  running # Nil /\ ~Stopping =>
    /\ services.set
    /\ DOMAIN services.m = DOMAIN stack
    /\ \A id \in DOMAIN stack :
         /\ services.m[id] \in DOMAIN svc
         /\ svc[services.m[id]].id = id
         /\ svc[services.m[id]].fac = stack[id]
    /\ \A id, jd \in DOMAIN stack : services.m[id] = services.m[jd] => id = jd

\* C19: whenever n.running is set and no Stop is in progress, the ids of
\* n.services are exactly the ids of n.stack, one Service per id, made by the
\* registered constructor; and no step taken while n.running is set changes
\* n.stack, nor n.services unless the step is Stop's.
C19_LiveEqualsRegistry ==
  [][ /\ LiveMatchesRegistry'
      /\ running # Nil =>
           /\ stack' = stack
           /\ services' # services =>
                \E p \in Callers : lock = p /\ pc[p] = "stop_clear_services" ]_vars

C19_Witness ==
  /\ running # Nil
  /\ DOMAIN stack = IDs
  /\ \E p \in Callers : AtReturn(p, "Register") /\ err[p] = ErrNodeRunning
  /\ \E q \in Callers : pc[q] = "lock" /\ fn[q] = "Unregister"
\* C20: every call that is in progress returns, and n.lock, once held, is
\* released.
C20_EveryCallReturns ==
  \A p \in Callers :
    /\ pc[p] # "idle" ~> pc[p] = "idle"
    /\ lock = p ~> lock # p

C20_Witness ==
  \E p \in Callers : \E q \in Callers \ {p} :
    /\ op[p].name = "Restart" /\ pc[p] = "lock" /\ fn[p] = "Start"
    /\ pc[q] = "start_rollback"

====
